---------------------------- MODULE Spec2Model ----------------------------
(***************************************************************************)
(* url-map: the URL service (src/src/services/mod.rs) over the storage     *)
(* capability (src/src/storage/mod.rs) and its two backends, the in-memory *)
(* map behind an RwLock (src/src/storage/memory.rs) and the transactional  *)
(* PostgreSQL backend (src/src/storage/postgres.rs).                       *)
(*                                                                         *)
(* Requests are served concurrently: each task of Tasks runs one service   *)
(* call at a time, and a call is a sequence of steps (pc) that interleave  *)
(* with the other tasks' steps.                                            *)
(***************************************************************************)
EXTENDS Integers, Sequences, FiniteSets, TLC

(***************************************************************************)
(* Bounds of the model.                                                    *)
(***************************************************************************)
\* Number of requests in flight at the same time.
NumTasks == 2
\* Largest number of create_short_url calls that reach the storage; each one
\* reads the clock, which has advanced since the one before.
MaxCreates == 2
\* Largest number of resolves started against one short code.
MaxVisits == 2

\* The largest number of calls the database fails in a run.
MaxFaults == 1
\* Number of requests in flight at the same time in the runs where the
\* database fails calls.
FaultTasks == 1

(***************************************************************************)
(* Program constants.                                                      *)
(***************************************************************************)
\* services/mod.rs:67   if original_url.len() > 2048
MaxUrlLen == 2048
\* services/mod.rs:73   nanoid!(10)
CodeLen == 10

Tasks == 1..NumTasks

(***************************************************************************)
(* Strings that are URLs.  A URL text is kept by its parts:                *)
(*   scheme ++ host ++ ("/" if slash) ++ "a"^ascii ++ "é"^multi            *)
(*          ++ "%C3%A9"^pct                                                *)
(* "é" is one character and two bytes of UTF-8; its percent-encoding is    *)
(* six ASCII characters.                                                   *)
(***************************************************************************)
UrlText(scheme, host, slash, ascii, multi, pct) ==
    [scheme |-> scheme, host |-> host, slash |-> slash,
     ascii |-> ascii, multi |-> multi, pct |-> pct]

\* str::chars().count()
CharLen(u) ==
    Len(u.scheme) + Len(u.host) + (IF u.slash THEN 1 ELSE 0)
      + u.ascii + u.multi + 6 * u.pct

\* String::len(): the length in bytes of the UTF-8 encoding.
ByteLen(u) ==
    Len(u.scheme) + Len(u.host) + (IF u.slash THEN 1 ELSE 0)
      + u.ascii + 2 * u.multi + 6 * u.pct

\* Url::parse fails on a text with no scheme (a relative URL without a base).
UrlParses(u) == u.scheme # ""

\* The host as the parser keeps it: lower case.
LowerHost(h) == IF h = "EXAMPLE.COM" THEN "example.com" ELSE h

\* Url::parse followed by Url::to_string: the host in lower case, an empty
\* path replaced by "/", every non-ASCII character of the path
\* percent-encoded.
Canonical(u) ==
    UrlText(u.scheme, LowerHost(u.host), TRUE, u.ascii, 0, u.pct + u.multi)

\* "not-a-url"
NotAUrl == UrlText("", "not-a-url", FALSE, 0, 0, 0)
\* "https://example.com"
ExampleCom == UrlText("https://", "example.com", FALSE, 0, 0, 0)
\* "https://EXAMPLE.COM/a"
ExampleUpperA == UrlText("https://", "EXAMPLE.COM", TRUE, 1, 0, 0)
\* "https://example.com/" followed by 2028 "a": 2048 characters and bytes.
Ascii2048 == UrlText("https://", "example.com", TRUE, MaxUrlLen - 20, 0, 0)
\* one more "a": 2049 characters and bytes.
Ascii2049 == UrlText("https://", "example.com", TRUE, MaxUrlLen - 19, 0, 0)
\* "https://example.com/", 2027 "a" and one "é": 2048 characters, 2049 bytes.
Multi2048 == UrlText("https://", "example.com", TRUE, MaxUrlLen - 21, 1, 0)

\* "not-a-url" followed by 2040 "a": no URL, and 2049 characters and bytes.
NotAUrl2049 == UrlText("", "not-a-url", FALSE, MaxUrlLen - 8, 0, 0)

\* The texts the callers submit: everyday ones, and those at the length limit.
PlainUrls == {NotAUrl, ExampleCom, ExampleUpperA}
LimitUrls == {NotAUrl, NotAUrl2049, Ascii2048, Ascii2049, Multi2048}

(***************************************************************************)
(* Short codes: nanoid!(10) draws CodeLen symbols from the 64-symbol       *)
(* alphabet A-Za-z0-9_- .  The model draws from two of them.               *)
(***************************************************************************)
Letters ==
    {"A","B","C","D","E","F","G","H","I","J","K","L","M",
     "N","O","P","Q","R","S","T","U","V","W","X","Y","Z",
     "a","b","c","d","e","f","g","h","i","j","k","l","m",
     "n","o","p","q","r","s","t","u","v","w","x","y","z"}
Digits == {"0","1","2","3","4","5","6","7","8","9"}
NanoidAlphabet == Letters \cup Digits \cup {"_", "-"}

Codes ==
    { [i \in 1..CodeLen |-> IF i = CodeLen THEN last ELSE "k"]
        : last \in {"7", "_"} }

(***************************************************************************)
(* Errors (errors/mod.rs) and results.                                     *)
(***************************************************************************)
Ok(v) == [ok |-> TRUE, val |-> v]
\* An error: its kind (the variant of UrlShortenerErrorType) and its message,
\* a text kept as the sequence of the pieces it was formatted from.
ErrParts(kind, parts) == [ok |-> FALSE, kind |-> kind, msg |-> parts]
Err(kind, msg) == ErrParts(kind, <<msg>>)
NoResult == ErrParts("None", <<>>)

\* impl fmt::Display for UrlShortenerError: write!(f, "{:?}", self.error_type),
\* that is  NotFound  or  Kind("message").
Display(e) ==
    IF e.kind = "NotFound" THEN <<"NotFound">>
    ELSE <<e.kind, "(\"">> \o e.msg \o <<"\")">>

\* The text holds the pieces, in a row.
Contains(text, pieces) ==
    \E i \in 0..(Len(text) - Len(pieces)) :
       SubSeq(text, i + 1, i + Len(pieces)) = pieces

\* impl From<ShortenedUrl> for StorageShortenedUrl
ToStorage(s) ==
    [id |-> 0, original_url |-> s.original_url, short_url |-> s.short_code,
     created_at |-> s.created_at, visits |-> s.visits]

\* impl From<StorageShortenedUrl> for ShortenedUrl
FromStorage(e) ==
    [short_code |-> e.short_url, original_url |-> e.original_url,
     created_at |-> e.created_at, visits |-> e.visits]

NoEntity ==
    [id |-> 0, original_url |-> NotAUrl, short_url |-> <<>>,
     created_at |-> 0, visits |-> 0]

VARIABLES
    urls,         \* MemoryStorage.urls: the map short code -> entity
    lockWriter,   \* the task holding the RwLock's write guard, or 0
    lockReaders,  \* the tasks holding a read guard
    poisoned,     \* the RwLock is poisoned: a writer panicked under its guard
    table,        \* shortened_urls: the committed rows, short_url -> row
    txw,          \* each task's transaction: the write it has not committed
    nextId,       \* the sequence behind shortened_urls.id
    now,          \* the wall clock (Utc::now())
    inputs,       \* the URL texts the callers submit
    codes,        \* the short codes the generator draws and the callers ask for
    faults,       \* how many more calls (begin, statement, commit, rollback)
                  \* the database may fail
    backend,      \* the storage injected into the service: "memory" or "postgres"
    workers,      \* how many of the tasks serve requests
    pc,           \* each task's position in its call
    op,           \* each task's call: its name and argument; for an observed
                  \* get_url_stats also, as history, the resolves of the code
                  \* completed when the call started (seen)
    ent,          \* each task's local entity (the url to save, the url found)
    res,          \* what the call has got: the storage's answer, or the
                  \* rejection of its input
    issued,       \* history: short code -> the first create that returned it:
                  \* the caller's text and the entity returned
    resolved      \* history: short code -> get_original_url calls completed

memory == <<urls, lockWriter, lockReaders, poisoned>>
postgres == <<table, txw, nextId, faults>>
scenario == <<inputs, codes, backend, workers>>
history == <<issued, resolved>>
vars == <<memory, postgres, now, scenario, pc, op, ent, res, history>>

Idle == [name |-> "idle", raw |-> NotAUrl, code |-> <<>>, seen |-> 0]
NoWrite == [kind |-> "none", row |-> NoEntity]

\* MemoryStorage::new, PostgresStorage::new on an empty database,
\* UrlService::new; no request is being served.
Start ==
    /\ urls = <<>>
    /\ lockWriter = 0
    /\ lockReaders = {}
    /\ poisoned = FALSE
    /\ table = <<>>
    /\ txw = [t \in Tasks |-> NoWrite]
    /\ nextId = 1
    /\ now = 0
    /\ pc = [t \in Tasks |-> "idle"]
    /\ op = [t \in Tasks |-> Idle]
    /\ ent = [t \in Tasks |-> NoEntity]
    /\ res = [t \in Tasks |-> NoResult]
    /\ issued = <<>>
    /\ resolved = [c \in Codes |-> 0]

OneCode == {CHOOSE c \in Codes : TRUE}

\* The service over the memory backend, as the tests build it (create_test_service).
OnMemory == Start /\ backend = "memory" /\ faults = 0 /\ workers = NumTasks

\* Everyday URLs, both short codes.
Init == OnMemory /\ inputs = PlainUrls /\ codes = Codes

Has(m, k) == k \in DOMAIN m

\* HashMap::insert: the entry for the key is set, whatever was there.
Insert(m, k, v) == [x \in DOMAIN m \cup {k} |-> IF x = k THEN v ELSE m[x]]

\* The tasks are alike: a new request goes to the first idle one.
Free(t) ==
    /\ t <= workers
    /\ pc[t] = "idle"
    /\ \A u \in Tasks : u < t => pc[u] # "idle"

\* The task is back to idle, its locals dropped.
Finish(t) ==
    /\ pc' = [pc EXCEPT ![t] = "idle"]
    /\ op' = [op EXCEPT ![t] = Idle]
    /\ ent' = [ent EXCEPT ![t] = NoEntity]
    /\ res' = [res EXCEPT ![t] = NoResult]

(***************************************************************************)
(* UrlService::create_short_url                                            *)
(***************************************************************************)
\* The length check first, then Url::parse.
ValidateLengthFirst(raw) ==
    IF ByteLen(raw) > MaxUrlLen
    THEN Err("UrlTooLong", "URL exceeds 2048 characters")
    ELSE IF ~UrlParses(raw) THEN Err("InvalidUrl", "relative URL without a base")
         ELSE Ok(Canonical(raw))

\* Url::parse, then the length check on the caller's text.
Validate(raw) ==
    IF ~UrlParses(raw) THEN Err("InvalidUrl", "relative URL without a base")
    ELSE IF ByteLen(raw) > MaxUrlLen
         THEN Err("UrlTooLong", "URL exceeds 2048 characters")
         ELSE Ok(Canonical(raw))

\* The entity the service hands to storage.save_url.
NewEntity(code, url, time) ==
    ToStorage([short_code |-> code, original_url |-> url,
               created_at |-> time, visits |-> 0])

\* Validation, nanoid!(10), the entity; the call is then at storage.save_url,
\* or has returned the rejection.
CreateShortUrl(t) ==
    /\ Free(t)
    /\ \E raw \in inputs :
         LET v == Validate(raw) IN
         /\ op' = [op EXCEPT ![t] = [name |-> "create", raw |-> raw, code |-> <<>>, seen |-> 0]]
         /\ IF v.ok
            THEN \E code \in codes :
                   /\ now < MaxCreates
                   /\ now' = now + 1
                   /\ ent' = [ent EXCEPT ![t] = NewEntity(code, v.val, now)]
                   /\ pc' = [pc EXCEPT ![t] = "save_url"]
                   /\ res' = res
            ELSE /\ UNCHANGED <<ent, now>>
                 /\ pc' = [pc EXCEPT ![t] = "create_rejected"]
                 /\ res' = [res EXCEPT ![t] = v]
    /\ UNCHANGED <<memory, postgres, scenario, history>>

\* Ok(saved_url) => Ok(saved_url.into()),  Err(e) => Err(e)
CreateReturnValue(r) == IF r.ok THEN Ok(FromStorage(r.val)) ELSE r

CreateShortUrlReturn(t) ==
    /\ pc[t] \in {"create_ret", "create_rejected"}
    /\ issued' = IF res[t].ok /\ ~Has(issued, res[t].val.short_url)
                 THEN Insert(issued, res[t].val.short_url,
                             [raw |-> op[t].raw,
                              url |-> CreateReturnValue(res[t]).val])
                 ELSE issued
    /\ Finish(t)
    /\ UNCHANGED <<memory, postgres, now, scenario, resolved>>

(***************************************************************************)
(* UrlService::get_original_url                                            *)
(***************************************************************************)
InFlightGets(c) ==
    Cardinality({u \in Tasks : op[u].name = "get" /\ op[u].code = c})

GetOriginalUrl(t) ==
    /\ Free(t)
    /\ \E c \in codes :
         /\ resolved[c] + InFlightGets(c) < MaxVisits
         /\ op' = [op EXCEPT ![t] = [name |-> "get", raw |-> NotAUrl, code |-> c, seen |-> 0]]
    /\ pc' = [pc EXCEPT ![t] = "get_url"]
    /\ UNCHANGED <<memory, postgres, now, scenario, ent, res, history>>

\* A match whose Err arm answers with a failure of its own.
GetReturnValueGeneric(r) ==
    IF r.ok THEN Ok(r.val.original_url) ELSE Err("InternalError", "lookup failed")

\* Ok(url) => Ok(url.original_url),  Err(e) => Err(e)
GetReturnValue(r) == IF r.ok THEN Ok(r.val.original_url) ELSE r

GetOriginalUrlReturn(t) ==
    /\ pc[t] = "get_ret"
    /\ resolved' = IF res[t].ok
                   THEN [resolved EXCEPT ![op[t].code] = @ + 1]
                   ELSE resolved
    /\ Finish(t)
    /\ UNCHANGED <<memory, postgres, now, scenario, issued>>

(***************************************************************************)
(* UrlService::get_url_stats                                               *)
(***************************************************************************)
\* The call starts; an observed call keeps, as history, the number of
\* resolves of its code completed by now.
StartStats(t, observed) ==
    /\ Free(t)
    /\ \E c \in codes :
         op' = [op EXCEPT ![t] = [name |-> "stats", raw |-> NotAUrl, code |-> c,
                                  seen |-> IF observed THEN resolved[c] ELSE 0]]
    /\ pc' = [pc EXCEPT ![t] = "get_stats"]
    /\ UNCHANGED <<memory, postgres, now, scenario, ent, res, history>>

GetUrlStats(t) == StartStats(t, FALSE)

GetUrlStatsObserved(t) == StartStats(t, TRUE)

\* Ok(url) => Ok(url.into()),  Err(e) => Err(e)
StatsReturnValue(r) == IF r.ok THEN Ok(FromStorage(r.val)) ELSE r

GetUrlStatsReturn(t) ==
    /\ pc[t] = "stats_ret"
    /\ Finish(t)
    /\ UNCHANGED <<memory, postgres, now, scenario, history>>

\* What the call of task t returns to its caller, once it is about to return.
Returning(t) == pc[t] \in {"create_ret", "create_rejected", "get_ret", "stats_ret"}

Returned(t) ==
    CASE pc[t] = "create_ret" -> CreateReturnValue(res[t])
      [] pc[t] = "create_rejected" -> res[t]
      [] pc[t] = "get_ret" -> GetReturnValue(res[t])
      [] pc[t] = "stats_ret" -> StatsReturnValue(res[t])
      [] OTHER -> NoResult

(***************************************************************************)
(* MemoryStorage: the map behind one RwLock.  A guard is dropped when the  *)
(* function returns.                                                       *)
(***************************************************************************)
\* A poisoned lock reported as a missing entity.
LockErrorAsNotFound(mode) == Err("NotFound", "")

\* write() / read() on a poisoned lock gives Err, the guard inside it is
\* dropped, and map_err makes InternalError("Failed to acquire <mode> lock").
LockError(mode) ==
    ErrParts("InternalError", <<"Failed to acquire ", mode, " lock">>)

\* RwLock::write() returns once no guard is held.
CanWrite == lockWriter = 0 /\ lockReaders = {}

\* A read() that is granted while a write guard is held.
CanReadBesideWriter == TRUE

\* RwLock::read() returns once no write guard is held.
CanRead == lockWriter = 0

\* A guard that is kept when the function returns.
ReleaseKept(t) == UNCHANGED <<lockWriter, lockReaders>>

\* The guard of task t is dropped.
Release(t) ==
    /\ lockWriter' = IF lockWriter = t THEN 0 ELSE lockWriter
    /\ lockReaders' = lockReaders \ {t}

\* save_url: self.urls.write()
MemSaveUrlLock(t) ==
    /\ pc[t] = "save_url"
    /\ backend = "memory"
    /\ CanWrite
    /\ IF poisoned
       THEN /\ res' = [res EXCEPT ![t] = LockError("write")]
            /\ pc' = [pc EXCEPT ![t] = "create_ret"]
            /\ lockWriter' = lockWriter
       ELSE /\ lockWriter' = t
            /\ pc' = [pc EXCEPT ![t] = "save_url_locked"]
            /\ res' = res
    /\ UNCHANGED <<urls, lockReaders, poisoned, postgres, now, scenario, op, ent, history>>

\* A save_url that answers without inserting.
SaveUrlMapDropped(m, url) == m

\* urls.insert(url.short_url.clone(), url.clone())
SaveUrlMap(m, url) == Insert(m, url.short_url, url)

\* Ok(url)
SaveUrlResult(m, url) == Ok(url)

\* save_url: the insert and the return.
MemSaveUrlInsert(t) ==
    /\ poisoned' = poisoned
    /\ pc[t] = "save_url_locked"
    /\ urls' = SaveUrlMap(urls, ent[t])
    /\ res' = [res EXCEPT ![t] = SaveUrlResult(urls, ent[t])]
    /\ Release(t)
    /\ pc' = [pc EXCEPT ![t] = "create_ret"]
    /\ UNCHANGED <<postgres, now, scenario, op, ent, history>>

\* A get_url that takes the shared guard, self.urls.read(), for its update.
MemGetUrlReadLock(t) ==
    /\ pc[t] = "get_url"
    /\ backend = "memory"
    /\ CanRead
    /\ lockReaders' = lockReaders \cup {t}
    /\ pc' = [pc EXCEPT ![t] = "get_url_locked"]
    /\ UNCHANGED <<urls, lockWriter, poisoned, postgres, now, scenario, op, ent, res,
                   history>>

\* get_url: self.urls.write()
MemGetUrlLock(t) ==
    /\ pc[t] = "get_url"
    /\ backend = "memory"
    /\ CanWrite
    /\ IF poisoned
       THEN /\ res' = [res EXCEPT ![t] = LockError("write")]
            /\ pc' = [pc EXCEPT ![t] = "get_ret"]
            /\ lockWriter' = lockWriter
       ELSE /\ lockWriter' = t
            /\ pc' = [pc EXCEPT ![t] = "get_url_locked"]
            /\ res' = res
    /\ UNCHANGED <<urls, lockReaders, poisoned, postgres, now, scenario, op, ent, history>>

\* get_url: urls.get_mut(short_code) finds the entry, whose visits the
\* increment reads; or finds none, and the call returns NotFound.
MemGetUrlLookup(t) ==
    /\ poisoned' = poisoned
    /\ pc[t] = "get_url_locked"
    /\ IF Has(urls, op[t].code)
       THEN /\ ent' = [ent EXCEPT ![t] = urls[op[t].code]]
            /\ pc' = [pc EXCEPT ![t] = "get_url_found"]
            /\ UNCHANGED <<res, lockWriter, lockReaders>>
       ELSE /\ res' = [res EXCEPT ![t] = Err("NotFound", "")]
            /\ Release(t)
            /\ pc' = [pc EXCEPT ![t] = "get_ret"]
            /\ ent' = ent
    /\ UNCHANGED <<urls, postgres, now, scenario, op, history>>

\* A get that writes the id as well.
IncrementedWithId(url) == [url EXCEPT !.visits = url.visits + 1, !.id = url.id + 1]

\* A get that leaves visits as read.
NotIncremented(url) == url

\* url.visits += 1, on the value read.
Incremented(url) == [url EXCEPT !.visits = url.visits + 1]

\* get_url: url.visits += 1; Ok(url.clone())
MemGetUrlIncrement(t) ==
    /\ poisoned' = poisoned
    /\ pc[t] = "get_url_found"
    /\ urls' = [urls EXCEPT ![op[t].code] = Incremented(ent[t])]
    /\ res' = [res EXCEPT ![t] = Ok(urls'[op[t].code])]
    /\ Release(t)
    /\ pc' = [pc EXCEPT ![t] = "get_ret"]
    /\ UNCHANGED <<postgres, now, scenario, op, ent, history>>

\* get_stats: self.urls.read()
MemGetStatsLock(t) ==
    /\ pc[t] = "get_stats"
    /\ backend = "memory"
    /\ CanRead
    /\ IF poisoned
       THEN /\ res' = [res EXCEPT ![t] = LockError("read")]
            /\ pc' = [pc EXCEPT ![t] = "stats_ret"]
            /\ lockReaders' = lockReaders
       ELSE /\ lockReaders' = lockReaders \cup {t}
            /\ pc' = [pc EXCEPT ![t] = "get_stats_locked"]
            /\ res' = res
    /\ UNCHANGED <<urls, lockWriter, poisoned, postgres, now, scenario, op, ent, history>>

\* urls.get(short_code).cloned().ok_or_else(|| NotFound)
GetStatsResult(m, c) == IF Has(m, c) THEN Ok(m[c]) ELSE Err("NotFound", "")

\* A get_stats that counts the lookup as a visit.
GetStatsMapCounting(m, c) ==
    IF Has(m, c) THEN [m EXCEPT ![c].visits = @ + 1] ELSE m

\* The map as get_stats leaves it: it only reads.
GetStatsMap(m, c) == m

\* get_stats: the lookup and the return.
MemGetStatsRead(t) ==
    /\ poisoned' = poisoned
    /\ pc[t] = "get_stats_locked"
    /\ res' = [res EXCEPT ![t] = GetStatsResult(urls, op[t].code)]
    /\ urls' = GetStatsMap(urls, op[t].code)
    /\ Release(t)
    /\ pc' = [pc EXCEPT ![t] = "stats_ret"]
    /\ UNCHANGED <<postgres, now, scenario, op, ent, history>>

\* The code under the write guard panics (the allocation of insert, the
\* overflow check of visits += 1) before it has written: the unwinding drops
\* the guard, which poisons the lock, and the request is lost.
MemPanic(t) ==
    /\ pc[t] \in {"save_url_locked", "get_url_locked", "get_url_found"}
    /\ lockWriter = t
    /\ poisoned' = TRUE
    /\ Release(t)
    /\ Finish(t)
    /\ UNCHANGED <<urls, postgres, now, scenario, history>>

(***************************************************************************)
(* PostgresStorage: every call is one transaction of its own on a pooled   *)
(* connection, at READ COMMITTED.  A statement sees the committed rows; a  *)
(* row a transaction has updated is locked until that transaction ends.    *)
(***************************************************************************)
\* What the database may do to a call: fail it (TRUE) or serve it (FALSE).
FaultChoices == IF faults > 0 THEN {FALSE, TRUE} ELSE {FALSE}

\* The call is failed (f) or served.
Faulted(f) == faults' = IF f THEN faults - 1 ELSE faults

\* Where the service call resumes when the storage call returns.
RetPc(name) ==
    CASE name = "create" -> "create_ret"
      [] name = "get" -> "get_ret"
      [] OTHER -> "stats_ret"

\* begin_tx: self.pool.begin(), any error mapped to DatabaseError and
\* returned by `?`.
PgBeginTx(t) ==
    /\ pc[t] \in {"save_url", "get_url", "get_stats"}
    /\ backend = "postgres"
    /\ \E f \in FaultChoices :
         /\ Faulted(f)
         /\ IF f
            THEN /\ res' = [res EXCEPT ![t] = Err("DatabaseError", "pool timed out")]
                 /\ pc' = [pc EXCEPT ![t] = RetPc(op[t].name)]
            ELSE /\ res' = res
                 /\ pc' = [pc EXCEPT ![t] = "pg_tx"]
    /\ UNCHANGED <<memory, table, txw, nextId, now, scenario, op, ent, history>>

\* A handle_error with no arm for RowNotFound: every error is DatabaseError.
HandleErrorNoRowArm(e) ==
    IF e = "23505" THEN Err("DatabaseError", "Short URL already exists")
    ELSE Err("DatabaseError", e)

\* handle_error: RowNotFound is NotFound, SQLSTATE 23505 is DatabaseError
\* "Short URL already exists", anything else DatabaseError with its text.
HandleError(e) ==
    CASE e = "RowNotFound" -> Err("NotFound", "")
      [] e = "23505" -> Err("DatabaseError", "Short URL already exists")
      [] OTHER -> Err("DatabaseError", e)

\* The row the INSERT of save_url_tx writes: the caller's original_url and
\* short_url, Utc::now(), 0 visits, the next id of the sequence.
InsertedRow(url, id, time) ==
    [id |-> id, original_url |-> url.original_url, short_url |-> url.short_url,
     created_at |-> time, visits |-> 0]

\* Another transaction has inserted the same short_url and not ended yet: the
\* unique index makes this INSERT wait for it.
InsertWaits(t, c) ==
    \E u \in Tasks \ {t} : txw[u].kind = "insert" /\ txw[u].row.short_url = c

\* save_url_tx: INSERT ... RETURNING, fetch_one, map_err(handle_error).
PgSaveUrlTx(t) ==
    /\ pc[t] = "pg_tx"
    /\ op[t].name = "create"
    /\ ~InsertWaits(t, ent[t].short_url)
    /\ \E f \in FaultChoices :
         /\ Faulted(f)
         /\ IF f
            THEN /\ res' = [res EXCEPT ![t] = HandleError("connection reset")]
                 /\ pc' = [pc EXCEPT ![t] = "pg_rollback"]
                 /\ UNCHANGED <<txw, nextId>>
            ELSE /\ nextId' = nextId + 1
                 /\ IF Has(table, ent[t].short_url)
                    THEN /\ res' = [res EXCEPT ![t] = HandleError("23505")]
                         /\ pc' = [pc EXCEPT ![t] = "pg_rollback"]
                         /\ txw' = txw
                    ELSE LET row == InsertedRow(ent[t], nextId, now) IN
                         /\ txw' = [txw EXCEPT ![t] = [kind |-> "insert", row |-> row]]
                         /\ res' = [res EXCEPT ![t] = Ok(row)]
                         /\ pc' = [pc EXCEPT ![t] = "pg_commit"]
    /\ UNCHANGED <<memory, table, now, scenario, op, ent, history>>

\* An UPDATE that takes no row lock: it never waits.
RowNeverLocked(t, c) == FALSE

\* Another transaction has updated the row and not ended yet: the UPDATE of
\* get_url_tx waits for it, and then works on the row as committed.
RowLocked(t, c) ==
    \E u \in Tasks \ {t} : txw[u].kind = "update" /\ txw[u].row.short_url = c

\* get_url_tx(tx, short_url, true): UPDATE ... SET visits = visits + 1
\* ... RETURNING, fetch_one, map_err(handle_error).
PgGetUrlTx(t) ==
    /\ pc[t] = "pg_tx"
    /\ op[t].name = "get"
    /\ ~RowLocked(t, op[t].code)
    /\ \E f \in FaultChoices :
         /\ Faulted(f)
         /\ IF f
            THEN /\ res' = [res EXCEPT ![t] = HandleError("connection reset")]
                 /\ pc' = [pc EXCEPT ![t] = "pg_rollback"]
                 /\ txw' = txw
            ELSE IF Has(table, op[t].code)
                 THEN LET row == Incremented(table[op[t].code]) IN
                      /\ txw' = [txw EXCEPT ![t] = [kind |-> "update", row |-> row]]
                      /\ res' = [res EXCEPT ![t] = Ok(row)]
                      /\ pc' = [pc EXCEPT ![t] = "pg_commit"]
                 ELSE /\ res' = [res EXCEPT ![t] = HandleError("RowNotFound")]
                      /\ pc' = [pc EXCEPT ![t] = "pg_rollback"]
                      /\ txw' = txw
    /\ UNCHANGED <<memory, table, nextId, now, scenario, op, ent, history>>

\* get_url_tx(tx, short_url, false): SELECT, fetch_one, map_err(handle_error).
PgGetStatsTx(t) ==
    /\ pc[t] = "pg_tx"
    /\ op[t].name = "stats"
    /\ \E f \in FaultChoices :
         /\ Faulted(f)
         /\ IF f
            THEN /\ res' = [res EXCEPT ![t] = HandleError("connection reset")]
                 /\ pc' = [pc EXCEPT ![t] = "pg_rollback"]
            ELSE IF Has(table, op[t].code)
                 THEN /\ res' = [res EXCEPT ![t] = Ok(table[op[t].code])]
                      /\ pc' = [pc EXCEPT ![t] = "pg_commit"]
                 ELSE /\ res' = [res EXCEPT ![t] = HandleError("RowNotFound")]
                      /\ pc' = [pc EXCEPT ![t] = "pg_rollback"]
    /\ UNCHANGED <<memory, table, txw, nextId, now, scenario, op, ent, history>>

\* A commit that reports success and writes nothing.
CommittedNothing(tbl, w) == tbl

\* The committed rows once the write w is committed.
Committed(tbl, w) ==
    IF w.kind = "none" THEN tbl ELSE Insert(tbl, w.row.short_url, w.row)

\* A transaction whose write stays in the table although it did not commit.
RolledBackPartly(tbl, w) == Committed(tbl, w)

\* The committed rows once a transaction holding the write w has ended
\* without a commit: rolled back, or dropped (the Transaction's drop rolls
\* back).
RolledBack(tbl, w) == tbl

\* Ok(..) arm: tx.commit(), an error mapped to DatabaseError and returned by
\* `?` (the transaction is then not committed); else Ok(saved_url) / Ok(url).
PgCommit(t) ==
    /\ pc[t] = "pg_commit"
    /\ \E f \in FaultChoices :
         /\ Faulted(f)
         /\ IF f
            THEN /\ res' = [res EXCEPT ![t] = Err("DatabaseError", "commit failed")]
                 /\ table' = RolledBack(table, txw[t])
            ELSE /\ res' = res
                 /\ table' = Committed(table, txw[t])
    /\ txw' = [txw EXCEPT ![t] = NoWrite]
    /\ pc' = [pc EXCEPT ![t] = RetPc(op[t].name)]
    /\ UNCHANGED <<memory, nextId, now, scenario, op, ent, history>>

\* The text of the error of a rollback that fails.
RollbackError == "connection closed"

\* A rollback failure that reports the rollback error alone.
RollbackFailedAlone(e, r) ==
    ErrParts("DatabaseError", <<"Rollback failed: ", r>>)

\* DatabaseError(format!("Error: {}. Rollback failed: {}", e, rollback_err))
RollbackFailed(e, r) ==
    ErrParts("DatabaseError", <<"Error: ">> \o Display(e) \o <<". Rollback failed: ", r>>)

\* Err(e) arm: tx.rollback(), an error mapped to DatabaseError naming both
\* errors and returned by `?`; else Err(e).
PgRollback(t) ==
    /\ pc[t] = "pg_rollback"
    /\ \E f \in FaultChoices :
         /\ Faulted(f)
         /\ res' = [res EXCEPT ![t] =
                      IF f THEN RollbackFailed(res[t], RollbackError)
                           ELSE res[t]]
    /\ table' = RolledBack(table, txw[t])
    /\ txw' = [txw EXCEPT ![t] = NoWrite]
    /\ pc' = [pc EXCEPT ![t] = RetPc(op[t].name)]
    /\ UNCHANGED <<memory, nextId, now, scenario, op, ent, history>>

\* The caller abandons the call between begin and commit: the future is
\* dropped at an await, `tx` with it, and the transaction ends uncommitted.
PgAbandon(t) ==
    /\ pc[t] \in {"pg_tx", "pg_commit", "pg_rollback"}
    /\ table' = RolledBack(table, txw[t])
    /\ txw' = [txw EXCEPT ![t] = NoWrite]
    /\ Finish(t)
    /\ UNCHANGED <<memory, nextId, faults, now, scenario, history>>

(***************************************************************************)
(* The service and its two backends.                                       *)
(***************************************************************************)
ServiceOther ==
    \/ \E t \in Tasks : CreateShortUrl(t)
    \/ \E t \in Tasks : CreateShortUrlReturn(t)
    \/ \E t \in Tasks : GetOriginalUrl(t)
    \/ \E t \in Tasks : GetOriginalUrlReturn(t)
    \/ \E t \in Tasks : GetUrlStatsReturn(t)

ServiceNext == ServiceOther \/ \E t \in Tasks : GetUrlStats(t)

MemoryNext ==
    \/ \E t \in Tasks : MemSaveUrlLock(t)
    \/ \E t \in Tasks : MemSaveUrlInsert(t)
    \/ \E t \in Tasks : MemGetUrlLock(t)
    \/ \E t \in Tasks : MemGetUrlLookup(t)
    \/ \E t \in Tasks : MemGetUrlIncrement(t)
    \/ \E t \in Tasks : MemGetStatsLock(t)
    \/ \E t \in Tasks : MemGetStatsRead(t)

PostgresNext ==
    \/ \E t \in Tasks : PgBeginTx(t)
    \/ \E t \in Tasks : PgSaveUrlTx(t)
    \/ \E t \in Tasks : PgGetUrlTx(t)
    \/ \E t \in Tasks : PgGetStatsTx(t)
    \/ \E t \in Tasks : PgCommit(t)
    \/ \E t \in Tasks : PgRollback(t)
    \/ \E t \in Tasks : PgAbandon(t)

\* The service over the memory backend.
Next == ServiceNext \/ MemoryNext

Spec == Init /\ [][Next]_vars

\* The same, every request about one short code and one URL.
InitOneCode == OnMemory /\ inputs = {ExampleCom} /\ codes = OneCode
SpecOneCode == InitOneCode /\ [][Next]_vars

\* The same under fair scheduling: a task that can take a step of its storage
\* call, and stays able to, takes it.
MemoryStep(t) ==
    \/ MemSaveUrlLock(t) \/ MemSaveUrlInsert(t)
    \/ MemGetUrlLock(t) \/ MemGetUrlLookup(t) \/ MemGetUrlIncrement(t)
    \/ MemGetStatsLock(t) \/ MemGetStatsRead(t)
SpecFair == SpecOneCode /\ \A t \in Tasks : WF_vars(MemoryStep(t))

\* The same, every get_url_stats observed.
NextObserved ==
    ServiceOther \/ (\E t \in Tasks : GetUrlStatsObserved(t)) \/ MemoryNext
SpecObserved == InitOneCode /\ [][NextObserved]_vars

\* The same, where the code under the write guard may panic: the lock is then
\* poisoned for good.
NextPoison == Next \/ \E t \in Tasks : MemPanic(t)
SpecPoison == InitOneCode /\ [][NextPoison]_vars

\* The same, with the URL texts at the length limit.
InitLimits == OnMemory /\ inputs = LimitUrls /\ codes = OneCode
SpecLimits == InitLimits /\ [][Next]_vars

\* The service over the PostgreSQL backend, as main builds it, with a database
\* that serves every call; one short code and one URL.
OnPostgres == Start /\ backend = "postgres" /\ faults = 0 /\ workers = NumTasks
InitPg == OnPostgres /\ inputs = {ExampleCom} /\ codes = OneCode
NextPg == ServiceNext \/ PostgresNext
SpecPg == InitPg /\ [][NextPg]_vars

\* The same, with a database that may fail calls and FaultTasks requests at
\* a time.
InitPgFaults ==
    /\ Start /\ backend = "postgres" /\ faults = MaxFaults /\ workers = FaultTasks
    /\ inputs = {ExampleCom} /\ codes = OneCode
SpecPgFaults == InitPgFaults /\ [][NextPg]_vars

\* The service over either backend.
InitStores == (OnMemory \/ OnPostgres) /\ inputs = {ExampleCom} /\ codes = OneCode
NextStores == ServiceNext \/ MemoryNext \/ PostgresNext
SpecStores == InitStores /\ [][NextStores]_vars

(***************************************************************************)
(* The storage capability called directly, one call after the other: the   *)
(* same call is made to a MemoryStorage (urls) and to a PostgresStorage    *)
(* (table), each call running to its end before the next.  res[1] is what  *)
(* the memory backend returned to the last call, res[2] what the           *)
(* PostgreSQL backend returned.                                            *)
(***************************************************************************)
\* MemoryStorage::save_url, run to its end.
MemSaveUrl(m, url) == [store |-> SaveUrlMap(m, url), res |-> SaveUrlResult(m, url)]

\* MemoryStorage::get_url, run to its end.
MemGetUrl(m, c) ==
    IF Has(m, c)
    THEN [store |-> [m EXCEPT ![c] = Incremented(m[c])], res |-> Ok(Incremented(m[c]))]
    ELSE [store |-> m, res |-> Err("NotFound", "")]

\* MemoryStorage::get_stats, run to its end.
MemGetStats(m, c) == [store |-> GetStatsMap(m, c), res |-> GetStatsResult(m, c)]

\* PostgresStorage::save_url, run to its end on a database that serves every
\* call: begin, INSERT, commit; or begin, INSERT, unique violation, rollback.
PgSaveUrl(tbl, url, id, time) ==
    IF Has(tbl, url.short_url)
    THEN [store |-> tbl, res |-> HandleError("23505")]
    ELSE [store |-> Committed(tbl, [kind |-> "insert",
                                    row |-> InsertedRow(url, id, time)]),
          res |-> Ok(InsertedRow(url, id, time))]

\* PostgresStorage::get_url, run to its end: begin, UPDATE, commit; or begin,
\* UPDATE, no row, rollback.
PgGetUrl(tbl, c) ==
    IF Has(tbl, c)
    THEN [store |-> Committed(tbl, [kind |-> "update", row |-> Incremented(tbl[c])]),
          res |-> Ok(Incremented(tbl[c]))]
    ELSE [store |-> tbl, res |-> HandleError("RowNotFound")]

\* PostgresStorage::get_stats, run to its end.
PgGetStats(tbl, c) ==
    IF Has(tbl, c)
    THEN [store |-> tbl, res |-> Ok(tbl[c])]
    ELSE [store |-> tbl, res |-> HandleError("RowNotFound")]

\* The entities a caller of save_url passes for a code and a URL: the one
\* create_short_url builds, and one that carries an id, an old created_at and
\* visits of its own.
SaveInputs(c, url, time) ==
    {NewEntity(c, url, time),
     [id |-> 7, original_url |-> url, short_url |-> c, created_at |-> 0, visits |-> 3]}

\* The two answers to the last call.
BothAnswer(a, b) == [t \in Tasks |-> IF t = 1 THEN a ELSE IF t = 2 THEN b ELSE res[t]]

\* save_url(url) on both backends; the clock advances between the caller's
\* reading of it and the INSERT's.
BothSaveUrl ==
    /\ now < MaxCreates
    /\ \E c \in codes, raw \in {r \in inputs : UrlParses(r)} :
         \E url \in SaveInputs(c, Canonical(raw), now) :
            LET mem == MemSaveUrl(urls, url)
                pg == PgSaveUrl(table, url, nextId, now + 1)
            IN /\ urls' = mem.store
               /\ table' = pg.store
               /\ res' = BothAnswer(mem.res, pg.res)
               /\ ent' = [ent EXCEPT ![1] = url]
    /\ now' = now + 1
    /\ nextId' = nextId + 1
    /\ UNCHANGED <<lockWriter, lockReaders, poisoned, txw, faults, scenario, pc, op, history>>

\* get_url(c) on both backends.
BothGetUrl ==
    /\ \E c \in codes :
         LET mem == MemGetUrl(urls, c)
             pg == PgGetUrl(table, c)
         IN /\ resolved[c] < MaxVisits
            /\ resolved' = [resolved EXCEPT ![c] = @ + 1]
            /\ urls' = mem.store
            /\ table' = pg.store
            /\ res' = BothAnswer(mem.res, pg.res)
    /\ UNCHANGED <<lockWriter, lockReaders, poisoned, txw, nextId, faults, now, scenario,
                   pc, op, ent, issued>>

\* get_stats(c) on both backends.
BothGetStats ==
    /\ \E c \in codes :
         LET mem == MemGetStats(urls, c)
             pg == PgGetStats(table, c)
         IN /\ urls' = mem.store
            /\ table' = pg.store
            /\ res' = BothAnswer(mem.res, pg.res)
    /\ UNCHANGED <<lockWriter, lockReaders, poisoned, txw, nextId, faults, now, scenario,
                   pc, op, ent, history>>

InitBackends ==
    /\ Start /\ backend = "both" /\ faults = 0 /\ workers = NumTasks
    /\ inputs = PlainUrls /\ codes = Codes
NextBackends == BothSaveUrl \/ BothGetUrl \/ BothGetStats
SpecBackends == InitBackends /\ [][NextBackends]_vars

\* Both ways of driving the storage: through the service, requests in flight
\* together, on one short code; and directly, call after call, on both codes.
InitFrames == InitStores \/ InitBackends
NextFrames ==
    \/ backend # "both" /\ NextStores
    \/ backend = "both" /\ NextBackends
SpecFrames == InitFrames /\ [][NextFrames]_vars

(***************************************************************************)
(* The HTTP layer: the status of an error (errors/mod.rs) and the answers  *)
(* of the handlers (handlers/mod.rs) to what the service returns.          *)
(***************************************************************************)
\* The variants of UrlShortenerErrorType.
ErrorKinds ==
    {"InvalidUrl", "UrlTooLong", "NotFound", "DatabaseError", "ConnectionError",
     "InvalidInput", "RateLimitExceeded", "BlockedUrl", "InternalError"}

\* impl ResponseError for UrlShortenerError: status_code
StatusCode(kind) ==
    CASE kind = "NotFound" -> 404
      [] kind \in {"InvalidUrl", "UrlTooLong", "InvalidInput"} -> 400
      [] kind = "BlockedUrl" -> 403
      [] kind = "RateLimitExceeded" -> 429
      [] kind \in {"DatabaseError", "ConnectionError", "InternalError"} -> 500

\* handlers::create_url: Ok is 200, InvalidUrl and UrlTooLong are BadRequest,
\* any other error InternalServerError.
CreateUrlStatus(r) ==
    IF r.ok THEN 200
    ELSE IF r.kind \in {"InvalidUrl", "UrlTooLong"} THEN 400
    ELSE 500

\* handlers::redirect: Ok is Found with the Location header, any error NotFound.
RedirectStatus(r) == IF r.ok THEN 302 ELSE 404

\* handlers::get_stats: Ok is 200, any error NotFound.
GetStatsStatus(r) == IF r.ok THEN 200 ELSE 404

\* The status the handler serving the call of task t answers with.
HandlerStatus(t) ==
    CASE op[t].name = "create" -> CreateUrlStatus(Returned(t))
      [] op[t].name = "get" -> RedirectStatus(Returned(t))
      [] OTHER -> GetStatsStatus(Returned(t))

(***************************************************************************)
(* Steps of the storage call of task t, as seen between two states.        *)
(***************************************************************************)
\* save_url returns (the state before holds the map the call found).
SaveUrlReturns(t) == pc[t] = "save_url_locked" /\ pc'[t] = "create_ret"

\* get_url returns.
GetUrlReturns(t) ==
    pc[t] \in {"get_url_locked", "get_url_found"} /\ pc'[t] = "get_ret"

\* get_stats returns.
GetStatsReturns(t) == pc[t] = "get_stats_locked" /\ pc'[t] = "stats_ret"

\* The service call of task t returns to its caller.
ServiceReturns(t) == Returning(t) /\ pc'[t] = "idle"

(***************************************************************************)
(* C1: uniqueness of short codes.  A create_short_url that returns success *)
(* returns a short code that no earlier successful create_short_url has    *)
(* returned, and a save_url whose short code is already stored leaves the  *)
(* stored entity's original_url and visits as they were.                   *)
(***************************************************************************)
C1_UniqueCodesNoOverwrite ==
    [][\A t \in Tasks :
         /\ (ServiceReturns(t) /\ pc[t] = "create_ret" /\ res[t].ok)
              => ~Has(issued, Returned(t).val.short_code)
         /\ (SaveUrlReturns(t) /\ Has(urls, ent[t].short_url))
              => /\ urls'[ent[t].short_url].original_url
                      = urls[ent[t].short_url].original_url
                 /\ urls'[ent[t].short_url].visits
                      = urls[ent[t].short_url].visits]_vars

(***************************************************************************)
(* C2: MemoryStorage::save_url of an entity whose short code is already in *)
(* the map fails with Conflict and leaves the map unchanged.               *)
(***************************************************************************)
C2_SaveExistingIsConflict ==
    [][\A t \in Tasks :
         (SaveUrlReturns(t) /\ Has(urls, ent[t].short_url))
            => /\ ~res'[t].ok
               /\ res'[t].kind = "Conflict"
               /\ urls' = urls]_vars


(***************************************************************************)
(* C3: memory backend, concurrent get_url calls on one existing short code *)
(* with no save_url on it besides the one that created it.  Every call     *)
(* that finds the code succeeds and returns the stored visits plus one,    *)
(* which it stores; the stored visits is the number of calls completed     *)
(* plus the number that have incremented and are returning, and the        *)
(* returning calls hold pairwise distinct visits.                          *)
(***************************************************************************)
\* The calls of get_url on c that have incremented and not yet returned.
GetsReturning(c) ==
    {t \in Tasks : pc[t] = "get_ret" /\ op[t].code = c /\ res[t].ok}

\* Only the creating save_url has been called.
OnlyCreated == now <= 1

C3_CountedOnce ==
    \A c \in codes :
       (OnlyCreated /\ Has(urls, c)) =>
          /\ urls[c].visits = resolved[c] + Cardinality(GetsReturning(c))
          /\ \A t, u \in GetsReturning(c) :
                t # u => res[t].val.visits # res[u].val.visits
          /\ \A t \in GetsReturning(c) :
                res[t].val.visits \in 1..urls[c].visits

C3_NoLostUpdate ==
    [][/\ C3_CountedOnce'
       /\ \A t \in Tasks :
            (GetUrlReturns(t) /\ Has(urls, op[t].code)) =>
               /\ res'[t].ok
               /\ res'[t].val.visits = urls[op[t].code].visits + 1
               /\ urls'[op[t].code].visits = urls[op[t].code].visits + 1]_vars

\* Two calls on the same code have both incremented and neither has returned.
C3_Witness ==
    \E c \in codes :
       /\ OnlyCreated
       /\ Has(urls, c)
       /\ Cardinality(GetsReturning(c)) >= 2
       /\ urls[c].visits = 2


(***************************************************************************)
(* C4: on the transactional backend, get_url transactions on the same      *)
(* existing short code that run concurrently each begin a transaction, run *)
(* the single UPDATE ... RETURNING and commit.  With a database that       *)
(* serves every call all of them succeed; the UPDATE returns the committed *)
(* visits plus one, the commit raises the committed visits by one, and the *)
(* committed visits is the number of get_url transactions that committed.  *)
(***************************************************************************)
\* The UPDATE of the get_url of task t runs.
PgGetUrlRuns(t) ==
    pc[t] = "pg_tx" /\ op[t].name = "get" /\ pc'[t] \notin {"pg_tx", "idle"}

\* The get_url of task t leaves its commit.
PgGetUrlCommits(t) == pc[t] = "pg_commit" /\ op[t].name = "get" /\ pc'[t] = "get_ret"

C4_CommittedCounted ==
    \A c \in codes : Has(table, c) =>
       table[c].visits = resolved[c] + Cardinality(GetsReturning(c))

C4_NoStaleIncrement ==
    [][/\ C4_CommittedCounted'
       /\ \A t \in Tasks :
            /\ (PgGetUrlRuns(t) /\ Has(table, op[t].code) /\ faults = 0) =>
                 /\ pc'[t] = "pg_commit"
                 /\ res'[t].ok
                 /\ res'[t].val.visits = table[op[t].code].visits + 1
            /\ (PgGetUrlCommits(t) /\ faults = 0) => res'[t].ok
            /\ (PgGetUrlCommits(t) /\ res'[t].ok) =>
                 /\ table'[op[t].code].visits = table[op[t].code].visits + 1
                 /\ res'[t].val = table'[op[t].code]]_vars

\* Two get_url transactions on the same existing code are open at once: one
\* has run its UPDATE and holds the incremented row, the other waits for it.
C4_Witness ==
    \E t, u \in Tasks :
       /\ t # u
       /\ backend = "postgres"
       /\ pc[t] = "pg_commit" /\ op[t].name = "get" /\ txw[t].kind = "update"
       /\ pc[u] = "pg_tx" /\ op[u].name = "get" /\ op[u].code = op[t].code
       /\ Has(table, op[t].code)
       /\ txw[t].row.visits = table[op[t].code].visits + 1

(***************************************************************************)
(* C5: get_url_stats on a short code that create_short_url has returned,   *)
(* read while no get_original_url on the code is in flight, returns as     *)
(* visits the number of get_original_url calls on the code that have       *)
(* completed successfully.                                                 *)
(***************************************************************************)
C5_StatsCountResolves ==
    [][\A t \in Tasks :
         (/\ GetStatsReturns(t)
          /\ Has(issued, op[t].code)
          /\ InFlightGets(op[t].code) = 0)
            => /\ res'[t].ok
               /\ StatsReturnValue(res'[t]).val.visits = resolved[op[t].code]]_vars

(***************************************************************************)
(* C6: get_url_stats is read-only.  No step of the call changes the map,   *)
(* whether the call succeeds or fails, and on success the call returns the *)
(* stored entity as it is.                                                 *)
(***************************************************************************)
\* A step of a get_url_stats call of task t.
StatsStep(t) ==
    (op[t].name = "stats" \/ op'[t].name = "stats") /\ pc'[t] # pc[t]

\* The step of get_stats that reads the store: the lookup under the read
\* guard, or the SELECT.
StatsReads(t) ==
    /\ op[t].name = "stats"
    /\ pc[t] \in {"get_stats_locked", "pg_tx"}
    /\ pc'[t] \notin {pc[t], "idle"}

\* The entities the backend in use holds.
Stored == IF backend = "memory" THEN urls ELSE table

C6_StatsReadOnly ==
    [][\A t \in Tasks :
         /\ StatsStep(t) => (urls' = urls /\ table' = table /\ nextId' = nextId)
         /\ StatsReads(t) =>
              /\ faults = 0 => (res'[t].ok = Has(Stored, op[t].code))
              /\ res'[t].ok =>
                   /\ Has(Stored, op[t].code)
                   /\ res'[t].val = Stored'[op[t].code]]_vars

\* On the memory backend a get_url_stats is returning an entity that has been
\* visited, which the map still holds as returned.
C6_Witness ==
    \E t \in Tasks :
       /\ backend = "memory"
       /\ pc[t] = "stats_ret"
       /\ res[t].ok
       /\ res[t].val.visits > 0
       /\ urls[op[t].code] = res[t].val

(***************************************************************************)
(* C7: the stored visits of a short code is never negative and never       *)
(* decreases.                                                              *)
(***************************************************************************)
C7_VisitsMonotonic ==
    [][\A c \in DOMAIN urls :
         /\ urls[c].visits >= 0
         /\ Has(urls', c)
         /\ urls'[c].visits >= urls[c].visits]_vars

(***************************************************************************)
(* C8: once an entity exists for a short code, its original_url and        *)
(* created_at never change, and get_url_stats returns them as the create   *)
(* returned them.                                                          *)
(***************************************************************************)
C8_UrlAndCreatedAtImmutable ==
    [][/\ \A c \in DOMAIN urls :
            /\ Has(urls', c)
            /\ urls'[c].original_url = urls[c].original_url
            /\ urls'[c].created_at = urls[c].created_at
       /\ \A t \in Tasks :
            (GetStatsReturns(t) /\ Has(issued, op[t].code)) =>
               /\ res'[t].ok
               /\ StatsReturnValue(res'[t]).val.original_url
                    = issued[op[t].code].url.original_url
               /\ StatsReturnValue(res'[t]).val.created_at
                    = issued[op[t].code].url.created_at]_vars

(***************************************************************************)
(* C9: round trip.  create_short_url(u) returns the canonical form of u as *)
(* original_url, and once it has returned short code c, get_original_url(c)*)
(* succeeds with the canonical form of u and get_url_stats(c) succeeds     *)
(* with it as original_url.                                                *)
(***************************************************************************)
C9_RoundTrip ==
    [][\A t \in Tasks :
         /\ (ServiceReturns(t) /\ pc[t] = "create_ret" /\ res[t].ok)
              => Returned(t).val.original_url = Canonical(op[t].raw)
         /\ (GetUrlReturns(t) /\ Has(issued, op[t].code))
              => /\ res'[t].ok
                 /\ GetReturnValue(res'[t]).val = Canonical(issued[op[t].code].raw)
         /\ (GetStatsReturns(t) /\ Has(issued, op[t].code))
              => /\ res'[t].ok
                 /\ StatsReturnValue(res'[t]).val.original_url
                      = Canonical(issued[op[t].code].raw)]_vars

(***************************************************************************)
(* C10: validation boundaries of create_short_url.  A text that does not   *)
(* parse fails with InvalidUrl; a text that parses and has exactly 2048    *)
(* characters succeeds; a text that parses and has 2049 characters or more *)
(* fails with UrlTooLong.                                                  *)
(***************************************************************************)
C10_ValidationBoundaries ==
    \A t \in Tasks :
       pc[t] \in {"create_ret", "create_rejected"} =>
          LET raw == op[t].raw
              r == Returned(t)
          IN /\ ~UrlParses(raw) => (~r.ok /\ r.kind = "InvalidUrl")
             /\ (UrlParses(raw) /\ CharLen(raw) = MaxUrlLen) => r.ok
             /\ (UrlParses(raw) /\ CharLen(raw) > MaxUrlLen)
                  => (~r.ok /\ r.kind = "UrlTooLong")


(***************************************************************************)
(* C11: get_original_url and get_url_stats on a short code that has no     *)
(* entity fail with NotFound on both backends, and no step of the failed   *)
(* call changes the store: no entity is created, no visits changes.        *)
(***************************************************************************)
\* The call of task t is a lookup by short code.
IsLookup(t) == op[t].name \in {"get", "stats"}

\* The storage call of task t reads the store and finds no entity: the
\* get_mut / get under the guard, or the UPDATE / SELECT.
ReadsAbsent(t) ==
    /\ IsLookup(t)
    /\ pc[t] \in {"get_url_locked", "get_stats_locked", "pg_tx"}
    /\ pc'[t] \notin {pc[t], "idle"}
    /\ ~Has(Stored, op[t].code)

\* The call of task t has got NotFound.
GotNotFound(t) == IsLookup(t) /\ ~res[t].ok /\ res[t].kind = "NotFound"

C11_AbsentIsNotFound ==
    [][\A t \in Tasks :
         /\ ReadsAbsent(t) =>
              /\ ~res'[t].ok /\ res'[t].kind = "NotFound"
              /\ urls' = urls /\ table' = table /\ txw'[t] = NoWrite
         /\ (GotNotFound(t) /\ pc'[t] # pc[t]) =>
              /\ urls' = urls /\ table' = table /\ txw'[t] = NoWrite
              /\ pc'[t] = "idle" \/ res'[t] = res[t]
         /\ (GotNotFound(t) /\ ServiceReturns(t)) =>
              (~Returned(t).ok /\ Returned(t).kind = "NotFound")]_vars

\* On the PostgreSQL backend a get_original_url is returning NotFound for a
\* code that has no row, its transaction rolled back.
C11_Witness ==
    \E t \in Tasks :
       /\ backend = "postgres"
       /\ pc[t] = "get_ret"
       /\ GotNotFound(t)
       /\ ~Has(table, op[t].code)
       /\ txw[t] = NoWrite


(***************************************************************************)
(* C12: when save reports a uniqueness conflict, create_short_url draws a  *)
(* new code and saves again, up to 5 attempts, and fails with a dedicated  *)
(* allocation-exhausted error only if every attempt collided.  Hence a     *)
(* create never returns to its caller the conflict of its save: after a    *)
(* colliding save it either saves again or returns allocation-exhausted.   *)
(***************************************************************************)
\* The save_url of the create of task t has reported the unique violation.
SaveCollided(t) ==
    /\ op[t].name = "create"
    /\ pc[t] = "create_ret"
    /\ res[t] = HandleError("23505")

C12_RetryOnConflict ==
    [][\A t \in Tasks :
         (SaveCollided(t) /\ pc'[t] # pc[t]) =>
            \/ pc'[t] = "save_url" /\ ent'[t].short_url # ent[t].short_url
            \/ /\ ServiceReturns(t)
               /\ ~Returned(t).ok
               /\ Returned(t).kind = "AllocationExhausted"]_vars


(***************************************************************************)
(* C13: backend equivalence.  For every sequence of save_url, get_url and  *)
(* get_stats calls made to both backends, the two return the same outcome  *)
(* at each step: both succeed with the same original_url, short code and   *)
(* visits, or both fail with the same error kind.                          *)
(***************************************************************************)
SameOutcome(a, b) ==
    /\ a.ok = b.ok
    /\ a.ok => /\ a.val.original_url = b.val.original_url
               /\ a.val.short_url = b.val.short_url
               /\ a.val.visits = b.val.visits
    /\ ~a.ok => a.kind = b.kind

C13_BackendsAgree == SameOutcome(res[1], res[2])


(***************************************************************************)
(* C14: every error the storage returns to create_short_url,               *)
(* get_original_url or get_url_stats reaches the service's caller as it    *)
(* is, with the same kind and message; the service turns no storage error  *)
(* into success, and no storage success into an error.                     *)
(***************************************************************************)
\* The storage call of task t has returned into the service's match.
StorageAnswered(t) == pc[t] \in {"create_ret", "get_ret", "stats_ret"}

C14_ErrorsSurfaceUnchanged ==
    \A t \in Tasks :
       StorageAnswered(t) =>
          /\ Returned(t).ok = res[t].ok
          /\ ~res[t].ok => /\ Returned(t).kind = res[t].kind
                           /\ Returned(t).msg = res[t].msg

\* A get_original_url is returning the storage's NotFound while a
\* create_short_url is returning the storage's DatabaseError.
C14_Witness ==
    \E t, u \in Tasks :
       /\ pc[t] = "get_ret" /\ ~res[t].ok /\ res[t].kind = "NotFound"
       /\ Returned(t).kind = "NotFound"
       /\ pc[u] = "create_ret" /\ ~res[u].ok /\ res[u].kind = "DatabaseError"
       /\ Returned(u).kind = "DatabaseError"


(***************************************************************************)
(* C15: PostgresStorage::save_url reports a uniqueness violation on the    *)
(* short code (SQLSTATE 23505) with the error kind Conflict, and every     *)
(* other database error as DatabaseError.                                  *)
(***************************************************************************)
\* The INSERT of the save_url of task t fails.
PgInsertFails(t) ==
    pc[t] = "pg_tx" /\ op[t].name = "create" /\ pc'[t] = "pg_rollback"

C15_UniqueViolationIsConflict ==
    [][\A t \in Tasks :
         PgInsertFails(t) =>
            /\ ~res'[t].ok
            /\ res'[t].kind = IF faults' = faults /\ Has(table, ent[t].short_url)
                              THEN "Conflict"
                              ELSE "DatabaseError"]_vars


(***************************************************************************)
(* C16: PostgresStorage, for save_url, get_url and get_stats alike.  When  *)
(* the statement fails a rollback is attempted.  If the rollback succeeds  *)
(* the call returns the statement's error as it is; if the rollback fails  *)
(* the call returns one DatabaseError whose message holds both the         *)
(* statement's error and the rollback's.  Nothing is committed.            *)
(***************************************************************************)
\* The statement of the storage call of task t fails.
PgStatementFails(t) ==
    pc[t] = "pg_tx" /\ pc'[t] \notin {"pg_tx", "idle"} /\ ~res'[t].ok

\* The rollback of the storage call of task t returns.
PgRollsBack(t) == pc[t] = "pg_rollback" /\ pc'[t] \notin {"pg_rollback", "idle"}

C16_RollbackKeepsCause ==
    [][\A t \in Tasks :
         /\ PgStatementFails(t) => pc'[t] = "pg_rollback"
         /\ PgRollsBack(t) =>
              /\ pc'[t] = RetPc(op[t].name)
              /\ table' = table
              /\ txw'[t] = NoWrite
              /\ IF faults' = faults
                 THEN res'[t] = res[t]
                 ELSE /\ ~res'[t].ok
                      /\ res'[t].kind = "DatabaseError"
                      /\ Contains(res'[t].msg, Display(res[t]))
                      /\ Contains(res'[t].msg, <<RollbackError>>)]_vars

\* A get_url is returning the DatabaseError of a failed rollback, which names
\* the NotFound of its UPDATE.
C16_Witness ==
    \E t \in Tasks :
       /\ pc[t] = "get_ret"
       /\ ~res[t].ok
       /\ res[t].kind = "DatabaseError"
       /\ Contains(res[t].msg, <<"NotFound">>)
       /\ Contains(res[t].msg, <<RollbackError>>)


(***************************************************************************)
(* C17: PostgresStorage, atomicity.  The committed rows change only when a *)
(* transaction commits, and then by that transaction's whole write.  A     *)
(* call that fails, or that its caller abandons between begin and commit,  *)
(* leaves the committed rows as they were.  No statement observes another  *)
(* transaction's uncommitted insert or increment: it answers from the      *)
(* committed rows alone.                                                   *)
(***************************************************************************)
\* The transaction of task t is open.
InTx(t) == pc[t] \in {"pg_tx", "pg_commit", "pg_rollback"}

\* The transaction of task t ends with its commit.
PgCommitted(t) ==
    pc[t] = "pg_commit" /\ pc'[t] = RetPc(op[t].name) /\ res'[t].ok

\* The transaction of task t ends without a commit: the call fails or is
\* abandoned.
PgEndsUncommitted(t) == InTx(t) /\ ~InTx(t)' /\ ~PgCommitted(t)

\* The statement of task t runs to an answer.
PgStatementRuns(t) == pc[t] = "pg_tx" /\ pc'[t] \in {"pg_commit", "pg_rollback"}

C17_AllOrNothing ==
    [][/\ table' # table =>
            \E t \in Tasks : PgCommitted(t) /\ table' = Committed(table, txw[t])
       /\ \A t \in Tasks :
            /\ PgEndsUncommitted(t) => (table' = table /\ txw'[t] = NoWrite)
            /\ (PgStatementRuns(t) /\ faults' = faults) =>
                 /\ table' = table
                 /\ res'[t].ok = (Has(table, IF op[t].name = "create"
                                             THEN ent[t].short_url
                                             ELSE op[t].code)
                                    # (op[t].name = "create"))
                 /\ (res'[t].ok /\ op[t].name = "stats") =>
                       res'[t].val = table[op[t].code]
                 /\ (res'[t].ok /\ op[t].name = "get") =>
                       res'[t].val = Incremented(table[op[t].code])]_vars

\* A first INSERT ran and its transaction was abandoned; a second INSERT of
\* the same code is not committed yet, and a get_url on the code is returning
\* NotFound: it did not see the row.
C17_Witness ==
    \E t, u \in Tasks :
       /\ nextId = 3
       /\ table = <<>>
       /\ pc[t] = "pg_commit" /\ txw[t].kind = "insert"
       /\ pc[u] = "get_ret" /\ op[u].code = txw[t].row.short_url
       /\ ~res[u].ok /\ res[u].kind = "NotFound"


(***************************************************************************)
(* C18: a successful save_url persists the entity with visits = 0 and with *)
(* id and created_at assigned by the backend, whatever visits, id and      *)
(* created_at the entity passed in carries: the entity returned and stored *)
(* has visits 0, and its id and created_at are the same for every entity   *)
(* with that short code and URL the caller could have passed.              *)
(***************************************************************************)
\* The fields save_url is to assign.
Assigned(e) == [id |-> e.id, created_at |-> e.created_at, visits |-> e.visits]

C18_SaveAssignsFields ==
    [][now' # now =>
         LET url == ent'[1]
             others == SaveInputs(url.short_url, url.original_url, now)
         IN /\ res'[1].ok =>
                 /\ res'[1].val.visits = 0
                 /\ urls'[url.short_url].visits = 0
                 /\ \A o \in others :
                      Assigned(MemSaveUrl(urls, o).res.val) = Assigned(res'[1].val)
            /\ res'[2].ok =>
                 /\ res'[2].val.visits = 0
                 /\ table'[url.short_url].visits = 0
                 /\ \A o \in others :
                      Assigned(PgSaveUrl(table, o, nextId, now').res.val)
                         = Assigned(res'[2].val)]_vars


(***************************************************************************)
(* C19: the error-to-status mapping is total and fixed (NotFound 404;      *)
(* InvalidUrl, UrlTooLong, InvalidInput 400; BlockedUrl 403;               *)
(* RateLimitExceeded 429; DatabaseError, ConnectionError, InternalError    *)
(* 500), and the handlers answer with these statuses: the status of the    *)
(* error the service returned, 302 for a successful redirect, 200 for a    *)
(* successful create or stats.                                             *)
(***************************************************************************)
\* The status stated for each error kind.
StatedStatus(kind) ==
    IF kind = "NotFound" THEN 404
    ELSE IF kind \in {"InvalidUrl", "UrlTooLong", "InvalidInput"} THEN 400
    ELSE IF kind = "BlockedUrl" THEN 403
    ELSE IF kind = "RateLimitExceeded" THEN 429
    ELSE 500

C19_StatusMapping ==
    /\ \A kind \in ErrorKinds : StatusCode(kind) = StatedStatus(kind)
    /\ \A t \in Tasks :
         Returning(t) =>
            HandlerStatus(t) =
               IF Returned(t).ok
               THEN (IF op[t].name = "get" THEN 302 ELSE 200)
               ELSE StatedStatus(Returned(t).kind)


(***************************************************************************)
(* C20: no deletion.  Once create_short_url has returned short code c, the *)
(* entity of c stays in the store, and every later get_original_url(c) and *)
(* get_url_stats(c) finds it and returns Ok, never NotFound, whatever      *)
(* other calls run in between.                                             *)
(***************************************************************************)
\* The storage call of lookup t reads the store: get_mut / get under the
\* guard, or the UPDATE / SELECT of its transaction.
LooksUp(t) ==
    /\ IsLookup(t)
    /\ pc[t] \in {"get_url_locked", "get_stats_locked", "pg_tx"}
    /\ pc'[t] \notin {pc[t], "idle"}

\* Lookup t has found the entity and has yet to increment or commit.
FoundPending(t) == IsLookup(t) /\ pc[t] \in {"get_url_found", "pg_commit"}

\* Lookup t holds Ok from the storage.
AnsweredOk(t) == IsLookup(t) /\ pc[t] \in {"get_ret", "stats_ret"} /\ res[t].ok

C20_NoDeletion ==
    [][/\ \A c \in codes : Has(issued, c) => Has(Stored, c) /\ Has(Stored', c)
       /\ \A t \in Tasks :
            /\ (LooksUp(t) /\ Has(issued, op[t].code)) =>
                  FoundPending(t)' \/ AnsweredOk(t)'
            /\ (FoundPending(t) /\ pc'[t] \notin {pc[t], "idle"}) =>
                  AnsweredOk(t)'
            /\ (AnsweredOk(t) /\ ServiceReturns(t)) => Returned(t).ok]_vars

\* A get_url_stats on an issued code is returning Ok after the code has been
\* resolved and a second create_short_url has saved under it.
C20_Witness ==
    \E t \in Tasks :
       /\ pc[t] = "stats_ret"
       /\ AnsweredOk(t)
       /\ Has(issued, op[t].code)
       /\ resolved[op[t].code] >= 1
       /\ now >= 2


(***************************************************************************)
(* C21: when two save calls carrying the same short code and different     *)
(* original_url run concurrently, at most one of them returns success, and *)
(* the entity stored is the one of the call that succeeded.                *)
(***************************************************************************)
\* The save_url of create t has returned Ok and the create has not returned yet.
SavedOk(t) == pc[t] = "create_ret" /\ res[t].ok

C21_OneConcurrentSaveWins ==
    \A t \in Tasks : SavedOk(t) =>
       /\ Has(Stored, res[t].val.short_url)
       /\ Stored[res[t].val.short_url].original_url = res[t].val.original_url
       /\ \A u \in Tasks \ {t} :
            ~ /\ SavedOk(u)
              /\ res[u].val.short_url = res[t].val.short_url
              /\ res[u].val.original_url # res[t].val.original_url


(***************************************************************************)
(* C22: memory backend locking discipline.  save_url and get_url hold the  *)
(* write guard for their whole lookup-and-mutate step, get_stats holds     *)
(* only a read guard; there is at most one writer, never a writer together *)
(* with a reader, and the map changes only in a step of the writer.        *)
(* Several get_stats may hold read guards at the same time.                *)
(***************************************************************************)
\* Task t is inside save_url or get_url, past self.urls.write().
InWriteSection(t) == pc[t] \in {"save_url_locked", "get_url_locked", "get_url_found"}

\* Task t is inside get_stats, past self.urls.read().
InReadSection(t) == pc[t] = "get_stats_locked"

C22_LockDiscipline ==
    [][/\ \A t \in Tasks :
            /\ InWriteSection(t) <=> lockWriter = t
            /\ InReadSection(t) <=> t \in lockReaders
       /\ Cardinality({t \in Tasks : InWriteSection(t)}) <= 1
       /\ (\E t \in Tasks : InWriteSection(t)) => ~ \E u \in Tasks : InReadSection(u)
       /\ urls' # urls =>
            \E t \in Tasks : InWriteSection(t) /\ pc'[t] # pc[t]]_vars

\* Two get_stats calls hold read guards at the same time, on a map that holds
\* an entity.
C22_Witness ==
    /\ \E t, u \in Tasks : t # u /\ InReadSection(t) /\ InReadSection(u)
    /\ Cardinality(lockReaders) >= 2
    /\ urls # <<>>


(***************************************************************************)
(* C23: memory backend progress.  Under fair scheduling every started      *)
(* save_url, get_url and get_stats acquires the lock, completes and        *)
(* releases it: a guard that is held is dropped, and a call that waits for *)
(* the lock gets through once requests stop arriving, so no set of         *)
(* concurrent calls deadlocks.                                             *)
(***************************************************************************)
\* The storage call of task t has started and not returned.
InStorage(t) ==
    \/ pc[t] \in {"save_url", "get_url", "get_stats"}
    \/ InWriteSection(t) \/ InReadSection(t)

\* Task t holds a guard of the lock.
HoldsGuard(t) == lockWriter = t \/ t \in lockReaders

\* The storage call of task t has returned, its guard dropped.
StorageDone(t) == ~InStorage(t) /\ ~HoldsGuard(t)

\* A request arrives: a task starts a service call.
Arrival == \E t \in Tasks : pc[t] = "idle" /\ pc'[t] # "idle"

\* The storage call of task t waits for the lock.
WaitsForLock(t) == pc[t] \in {"save_url", "get_url", "get_stats"}

TooLong(t) == ~Returned(t).ok /\ Returned(t).kind = "UrlTooLong"

C24_LimitCountsCharacters ==
    \A t \in Tasks :
       (op[t].name = "create" /\ Returning(t)) =>
          (TooLong(t) <=> (UrlParses(op[t].raw) /\ CharLen(op[t].raw) > MaxUrlLen))


(***************************************************************************)
(* C25: a successful create_short_url adds exactly one new entity to the   *)
(* store and leaves every entity that was there unchanged in every field;  *)
(* no operation other than get_original_url changes an existing entity.    *)
(***************************************************************************)
\* The save_url of create t completes with Ok: the insert under the guard, or
\* the commit of the INSERT.
SaveSucceeds(t) ==
    /\ op[t].name = "create"
    /\ pc[t] \in {"save_url_locked", "pg_commit"}
    /\ pc'[t] = "create_ret"
    /\ res'[t].ok

\* A get_original_url on code c takes a step.
GetSteps(c) ==
    \E t \in Tasks : op[t].name = "get" /\ op[t].code = c /\ pc'[t] # pc[t]

C25_CreateAddsOneEntity ==
    [][/\ \A c \in DOMAIN Stored :
            /\ Has(Stored', c)
            /\ Stored'[c] # Stored[c] => GetSteps(c)
       /\ \A t \in Tasks :
            SaveSucceeds(t) =>
               /\ ~Has(Stored, ent[t].short_url)
               /\ DOMAIN Stored' = DOMAIN Stored \cup {ent[t].short_url}]_vars


(***************************************************************************)
(* C26: the storage get returns the post-increment entity.  On success the *)
(* entity returned is the stored entity right after the call, and its      *)
(* visits is the stored visits right before the call completes plus 1, on  *)
(* both backends.                                                          *)
(***************************************************************************)
\* The get_url of task t completes with Ok: the increment under the write
\* guard, or the commit of the UPDATE.
GetSucceeds(t) ==
    /\ op[t].name = "get"
    /\ pc[t] \in {"get_url_found", "pg_commit"}
    /\ pc'[t] = "get_ret"
    /\ res'[t].ok

C26_GetReturnsPostIncrement ==
    [][\A t \in Tasks :
         GetSucceeds(t) =>
            /\ Has(Stored, op[t].code)
            /\ res'[t].val = Stored'[op[t].code]
            /\ res'[t].val.visits = Stored[op[t].code].visits + 1]_vars

\* On the PostgreSQL backend the second get_url on a code has committed and is
\* returning the row with 2 visits, which the table holds.
C26_Witness ==
    \E t \in Tasks :
       /\ backend = "postgres"
       /\ pc[t] = "get_ret" /\ res[t].ok
       /\ res[t].val.visits = 2
       /\ table[op[t].code] = res[t].val


(***************************************************************************)
(* C27: a backend or infrastructure failure (DatabaseError,                *)
(* ConnectionError, InternalError) raised while a redirect or a stats      *)
(* request is handled is answered with 500; the redirect and get_stats     *)
(* handlers answer 404 for NotFound only.                                  *)
(***************************************************************************)
\* The service call of lookup t is returning an error to its handler.
LookupFails(t) == IsLookup(t) /\ Returning(t) /\ ~Returned(t).ok

C27_BackendFailureIs500 ==
    \A t \in Tasks :
       LookupFails(t) =>
          /\ Returned(t).kind \in {"DatabaseError", "ConnectionError", "InternalError"}
               => HandlerStatus(t) = 500
          /\ HandlerStatus(t) = 404 => Returned(t).kind = "NotFound"


(***************************************************************************)
(* C28: every short code create_short_url produces has the same fixed      *)
(* length, 10, and consists of alphanumeric characters only.               *)
(***************************************************************************)
\* The code is made of letters and digits.
Alphanumeric(code) == \A i \in DOMAIN code : code[i] \in Letters \cup Digits

C28_CodesAlphanumeric ==
    \A t \in Tasks :
       (pc[t] = "create_ret" /\ Returned(t).ok) =>
          /\ Len(Returned(t).val.short_code) = CodeLen
          /\ \A i \in DOMAIN Returned(t).val.short_code :
                Returned(t).val.short_code[i] \in NanoidAlphabet
          /\ Alphanumeric(Returned(t).val.short_code)


(***************************************************************************)
(* C29: a create_short_url that fails validation (InvalidUrl, UrlTooLong)  *)
(* makes no call to the storage and leaves the store unchanged; the parse  *)
(* check runs before the length check, so a text that does not parse and   *)
(* is longer than 2048 fails with InvalidUrl.                              *)
(***************************************************************************)
\* The create of task t takes a step.
CreateSteps(t) ==
    (op[t].name = "create" \/ op'[t].name = "create") /\ pc'[t] # pc[t]

\* The create of task t has failed validation.
Rejected(t) ==
    op[t].name = "create" /\ ~res[t].ok /\ res[t].kind \in {"InvalidUrl", "UrlTooLong"}

C29_RejectedCreateTouchesNothing ==
    [][\A t \in Tasks :
         /\ (CreateSteps(t) /\ pc'[t] = "create_rejected") =>
               /\ Rejected(t)'
               /\ ~UrlParses(op'[t].raw) => res'[t].kind = "InvalidUrl"
               /\ UNCHANGED <<memory, postgres, now>>
         /\ (CreateSteps(t) /\ pc'[t] = "save_url") =>
               (UrlParses(op'[t].raw) /\ res'[t] = NoResult)
         /\ (CreateSteps(t) /\ Rejected(t)) =>
               /\ pc[t] = "create_rejected" /\ pc'[t] = "idle"
               /\ Returned(t) = res[t]
               /\ UNCHANGED <<memory, postgres, now>>]_vars

\* A text that does not parse and is longer than 2048 is being rejected with
\* InvalidUrl while the store holds an entity.
C29_Witness ==
    \E t \in Tasks :
       /\ pc[t] = "create_rejected"
       /\ ~UrlParses(op[t].raw) /\ CharLen(op[t].raw) > MaxUrlLen
       /\ res[t].kind = "InvalidUrl"
       /\ urls # <<>>


(***************************************************************************)
(* C30: a successful get_original_url(c) changes only the visits of the    *)
(* entity of c: its original_url, short code, id and created_at, and every *)
(* field of every other entity, are the same before and after.             *)
(***************************************************************************)
\* From store s to store s2 nothing but the visits of the entity of c changed.
OnlyVisitsOf(c, s, s2) ==
    /\ DOMAIN s2 = DOMAIN s
    /\ \A k \in DOMAIN s :
          IF k = c THEN s2[k] = [s[k] EXCEPT !.visits = s2[k].visits]
                   ELSE s2[k] = s[k]

\* get_url(c) is called on both backends, one call after the other.
BothGetUrlOn(c) == backend = "both" /\ resolved'[c] # resolved[c]

C30_GetChangesVisitsOnly ==
    [][/\ \A t \in Tasks :
            GetSucceeds(t) =>
               /\ OnlyVisitsOf(op[t].code, urls, urls')
               /\ OnlyVisitsOf(op[t].code, table, table')
               /\ Stored'[op[t].code].visits # Stored[op[t].code].visits
       /\ \A c \in codes :
            BothGetUrlOn(c) =>
               /\ OnlyVisitsOf(c, urls, urls')
               /\ OnlyVisitsOf(c, table, table')
               /\ res'[1].ok => urls'[c].visits # urls[c].visits
               /\ res'[2].ok => table'[c].visits # table[c].visits]_vars

\* Called directly, a get_url has succeeded on the PostgreSQL backend while
\* both backends hold the entities of both codes.
C30_Witness ==
    \E c \in codes :
       /\ backend = "both"
       /\ Cardinality(DOMAIN table) = 2 /\ Cardinality(DOMAIN urls) = 2
       /\ resolved[c] >= 1
       /\ res[2].ok /\ res[2].val = table[c] /\ table[c].visits >= 1


(***************************************************************************)
(* C31: get_url_stats is linearizable with respect to the resolves of the  *)
(* same code that run beside it.  The visits it returns is at least the    *)
(* number of get_original_url calls on the code that completed before the  *)
(* stats call started, and at most the number of those that started before *)
(* the stats call completed.                                               *)
(***************************************************************************)
\* The resolves of code c started so far that have incremented or still may:
\* those completed and those in flight (one that failed counts for nothing).
StartedGets(c) == resolved[c] + InFlightGets(c)

C31_StatsLinearizable ==
    \A t \in Tasks :
       (pc[t] = "stats_ret" /\ Returned(t).ok) =>
          /\ Returned(t).val.visits >= op[t].seen
          /\ Returned(t).val.visits <= StartedGets(op[t].code)


(***************************************************************************)
(* C32: on the transactional backend save, get and get_stats return        *)
(* success only after their transaction has committed; if the commit fails *)
(* the call returns DatabaseError instead of the entity, and a caller      *)
(* never receives a success for a write that is not committed.             *)
(***************************************************************************)
\* The storage call of task t returns to the service.
PgReturns(t) ==
    /\ backend = "postgres"
    /\ pc[t] \in {"save_url", "get_url", "get_stats", "pg_commit", "pg_rollback"}
    /\ pc'[t] = RetPc(op[t].name)

\* tx.commit() of task t returns.
PgCommitReturns(t) == pc[t] = "pg_commit" /\ pc'[t] = RetPc(op[t].name)

C32_SuccessOnlyAfterCommit ==
    [][\A t \in Tasks :
         /\ (PgReturns(t) /\ res'[t].ok) =>
               /\ PgCommitReturns(t)
               /\ faults' = faults
               /\ res'[t] = res[t]
               /\ txw'[t] = NoWrite
               /\ txw[t].kind # "none" =>
                     /\ Has(table', txw[t].row.short_url)
                     /\ table'[txw[t].row.short_url] = res'[t].val
         /\ (PgCommitReturns(t) /\ faults' # faults) =>
               /\ ~res'[t].ok /\ res'[t].kind = "DatabaseError"
               /\ table' = table
               /\ txw'[t] = NoWrite]_vars

\* A create_short_url is returning DatabaseError for a commit that failed, and
\* the table holds no row of its short code.
C32_Witness ==
    \E t \in Tasks :
       /\ pc[t] = "create_ret"
       /\ ~res[t].ok /\ res[t].kind = "DatabaseError"
       /\ res[t].msg = <<"commit failed">>
       /\ ~Has(table, ent[t].short_url)


(***************************************************************************)
(* C33: memory backend.  When acquiring the lock fails because the lock is *)
(* poisoned, save_url, get_url and get_stats each return InternalError and *)
(* leave the map unchanged; they do not panic and do not return NotFound   *)
(* for that reason.                                                        *)
(***************************************************************************)
\* The storage call of task t comes back from write() / read().
LockReturns(t) == WaitsForLock(t) /\ pc'[t] # pc[t]

\* The call of task t holds InternalError.
GotInternalError(t) == ~res[t].ok /\ res[t].kind = "InternalError"

C33_PoisonedLockIsInternalError ==
    [][/\ poisoned => (poisoned' /\ urls' = urls)
       /\ \A t \in Tasks :
            /\ (poisoned /\ LockReturns(t)) =>
                  /\ pc'[t] = RetPc(op[t].name)
                  /\ GotInternalError(t)'
                  /\ UNCHANGED <<lockWriter, lockReaders>>
            /\ (GotInternalError(t) /\ pc'[t] # pc[t]) =>
                  /\ ServiceReturns(t)
                  /\ ~Returned(t).ok /\ Returned(t).kind = "InternalError"]_vars

\* The lock is poisoned, the map holds an entity, and a get_url_stats on its
\* code is returning InternalError.
C33_Witness ==
    \E t \in Tasks :
       /\ poisoned
       /\ pc[t] = "stats_ret" /\ GotInternalError(t)
       /\ Has(urls, op[t].code)

=============================================================================
